---------------------------- MODULE Spec2Model ----------------------------
(***************************************************************************)
(* RemoteEstimatorProxy: the receiver side of transport-wide congestion    *)
(* feedback (modules/remote_bitrate_estimator/remote_estimator_proxy.cc).  *)
(*                                                                         *)
(* Every public operation takes lock_ for its whole body, so each is one   *)
(* atomic action.  The estimator and telemetry calls of IncomingPacket     *)
(* (onnxinfer, StatCollect, the BWE application packet) touch only their   *)
(* own fields, which no operation modelled here reads; they are left out.  *)
(*                                                                         *)
(* int64_t times are modelled with the checker's integer width: kInt64Max  *)
(* stands for std::numeric_limits<int64_t>::max(), so that kMaxTimeMs and  *)
(* the "* 1000" conversions keep the relation they have in the source.     *)
(***************************************************************************)
EXTENDS Integers, Sequences, FiniteSets, TLC

VARIABLES
  packet_arrival_times_,      \* std::map<int64_t,int64_t>: unwrapped seq -> arrival ms
  periodic_window_start_seq_, \* absl::optional<int64_t>: <<>> or <<seq>>
  unwrapper_,                 \* sequence unwrapper state: <<>> or <<last unwrapped>>
  media_ssrc_,
  feedback_packet_count_,     \* uint8_t
  send_interval_ms_,
  last_process_time_ms_,
  send_periodic_feedback_,
  cycles_,                    \* send-time unwrap: -1 = not initialised
  max_abs_send_time_,
  now,                        \* clock_->TimeInMilliseconds()
  dcheck_is_on,               \* the build: RTC_DCHECK compiled in or not
  feedback_capacity,          \* receive records one TransportFeedback can hold
  crashed,                    \* a failed RTC_DCHECK / RTC_CHECK aborted the process
  sent,                       \* messages handed to feedback_sender_ by the last call
  n_sent,                     \* messages handed to feedback_sender_ so far
  call,                       \* the last call: operation, inputs, what it computed
  reported,                   \* window keys a sent periodic message has covered
  steps                       \* number of steps taken so far

vars == <<packet_arrival_times_, periodic_window_start_seq_, unwrapper_,
          media_ssrc_, feedback_packet_count_, send_interval_ms_,
          last_process_time_ms_, send_periodic_feedback_, cycles_,
          max_abs_send_time_, now, dcheck_is_on, feedback_capacity, crashed,
          sent, n_sent, call, reported, steps>>

----------------------------------------------------------------------------
(* Program constants *)

kMaxNumberOfPackets == 32768

kInt64Max == 2147483647

kMaxTimeMs == kInt64Max \div 1000

kTwccReportSize == 68

kSeqModulus == 65536

kAbsSendTimeModulus == 16777216

kDayMs == 86400000

(* send_config_ (TransportWideFeedbackConfig) defaults *)
back_window_ms == 500

min_interval_ms == 50

max_interval_ms == 250

default_interval_ms == 100

bandwidth_fraction_inv == 20

----------------------------------------------------------------------------
(* Bounds of the model *)

MaxSteps == 5

----------------------------------------------------------------------------
(* Helpers on the ordered map *)

Min(S) == CHOOSE x \in S : \A y \in S : x <= y

Max(S) == CHOOSE x \in S : \A y \in S : y <= x

RECURSIVE SortedSeq(_)
SortedSeq(S) == IF S = {} THEN <<>> ELSE <<Min(S)>> \o SortedSeq(S \ {Min(S)})

Keys(m) == DOMAIN m

Restrict(m, S) == [k \in S |-> m[k]]

EmptyMap == [k \in {} |-> 0]

(* Iterators are positions 1..Len+1 in the ascending key order; Len+1 is end(). *)
KeyAt(m, i) == SortedSeq(Keys(m))[i]

EndIt(m) == Cardinality(Keys(m)) + 1

lower_bound(m, k) == Cardinality({x \in Keys(m) : x < k}) + 1

upper_bound(m, k) == Cardinality({x \in Keys(m) : x <= k}) + 1

(* erase(begin(), it) *)
EraseBefore(m, it) ==
  Restrict(m, {KeyAt(m, i) : i \in it .. Cardinality(Keys(m))})


----------------------------------------------------------------------------
(* rtcp::TransportFeedback, as far as the proxy uses it.  A message holds  *)
(* a bounded number of receive records; AddReceivedPacket refuses a record *)
(* once the message is full.                                               *)

NewTransportFeedback(include_timestamps) ==
  [media_ssrc |-> 0, base_seq |-> 0, base_time_us |-> 0, feedback_seq |-> 0,
   include_timestamps |-> include_timestamps, packets |-> <<>>]

AddReceivedPacket(packet, seq16, time_us) ==
  IF Len(packet.packets) >= feedback_capacity
    THEN [ok |-> FALSE, packet |-> packet]
    ELSE [ok |-> TRUE,
          packet |-> [packet EXCEPT !.packets =
                        Append(@, [seq |-> seq16, time_us |-> time_us])]]

ToUint16(x) == x % kSeqModulus

(* Mutant: the arrival time handed over in milliseconds. *)
ToMicros_Millis(ms) == ms

ToMicros(ms) == ms * 1000

(* The loop of BuildFeedbackPacket, lines 329-341.  check_failed is the    *)
(* RTC_CHECK of line 334: not even the first record fits.                  *)
RECURSIVE AddPackets(_, _, _, _, _, _)
AddPackets(m, packet, begin_it, it, end_it, next) ==
  IF it = end_it
    THEN [check_failed |-> FALSE, packet |-> packet, next |-> next]
    ELSE LET Added(k, r) ==
               IF ~r.ok
                 THEN [check_failed |-> (begin_it = it), packet |-> packet,
                       next |-> next]
                 ELSE AddPackets(m, r.packet, begin_it, it + 1, end_it, k + 1)
             Try(k) ==
               Added(k, AddReceivedPacket(packet, ToUint16(k), ToMicros(m[k])))
         IN  Try(KeyAt(m, it))

(* RTC_DCHECK(begin_iterator != end_iterator), line 317: aborts a build    *)
(* with DCHECKs on, is compiled out otherwise.                             *)
DcheckNonEmptySlice(begin_it, end_it) == dcheck_is_on => begin_it /= end_it

(* begin_iterator->second of line 326.  Reading end() is undefined; no     *)
(* run of the specifications below reads it; -1 marks it.                  *)
BaseTimeMs(m, begin_it) ==
  IF begin_it = EndIt(m) THEN -1 ELSE m[KeyAt(m, begin_it)]

BuildFeedbackPacket(feedback_packet_count, media_ssrc, base_sequence_number, m, begin_it, end_it, packet) ==
  IF ~DcheckNonEmptySlice(begin_it, end_it)
    THEN [aborted |-> TRUE, packet |-> packet, next |-> base_sequence_number]
    ELSE LET Done(r) ==
               [aborted |-> r.check_failed, packet |-> r.packet,
                next |-> r.next]
         IN  Done(AddPackets(m,
                    [packet EXCEPT
                       !.media_ssrc = media_ssrc,
                       !.base_seq = ToUint16(base_sequence_number),
                       !.base_time_us = ToMicros(BaseTimeMs(m, begin_it)),
                       !.feedback_seq = feedback_packet_count],
                    begin_it, begin_it, end_it, base_sequence_number))

(* Mutant: a counter wider than 8 bits. *)
NextFeedbackCount_Wide(c) == c + 1

(* feedback_packet_count_++ on a uint8_t *)
NextFeedbackCount(c) == (c + 1) % 256

----------------------------------------------------------------------------
(* SendPeriodicFeedbacks, lines 250-273.  st carries the fields the loop   *)
(* changes: the cursor, the counter, the messages sent, and for each       *)
(* message the range [base, next) it was built for.                        *)

DrainStart(start, count) ==
  [start |-> start, count |-> count, sent |-> <<>>, ranges |-> <<>>,
   aborted |-> FALSE]

(* Mutant: one message per tick, the rest of the backlog left behind. *)
PeriodicLoop_Once(m, ssrc, st) ==
  LET Sent(r) ==
        IF r.aborted
          THEN [st EXCEPT !.count = NextFeedbackCount(st.count),
                          !.aborted = TRUE]
          ELSE [st EXCEPT !.start = <<r.next>>,
                          !.count = NextFeedbackCount(st.count),
                          !.sent = Append(@, r.packet),
                          !.ranges = Append(@, <<st.start[1], r.next>>)]
      From(begin_it) ==
        IF begin_it = EndIt(m)
          THEN st
          ELSE Sent(BuildFeedbackPacket(st.count, ssrc, st.start[1], m,
                                        begin_it, EndIt(m),
                                        NewTransportFeedback(TRUE)))
  IN  From(lower_bound(m, st.start[1]))

RECURSIVE PeriodicLoop(_, _, _)
PeriodicLoop(m, ssrc, st) ==
  LET Sent(r) ==
        IF r.aborted
          THEN [st EXCEPT !.count = NextFeedbackCount(st.count),
                          !.aborted = TRUE]
          ELSE PeriodicLoop(m, ssrc,
                 [st EXCEPT !.start = <<r.next>>,
                            !.count = NextFeedbackCount(st.count),
                            !.sent = Append(@, r.packet),
                            !.ranges = Append(@, <<st.start[1], r.next>>)])
      From(begin_it) ==
        IF begin_it = EndIt(m)
          THEN st
          ELSE Sent(BuildFeedbackPacket(st.count, ssrc, st.start[1], m,
                                        begin_it, EndIt(m),
                                        NewTransportFeedback(TRUE)))
  IN  From(lower_bound(m, st.start[1]))

SendPeriodicFeedbacks(m, ssrc, start, count) ==
  IF start = <<>>
    THEN DrainStart(start, count)
    ELSE PeriodicLoop(m, ssrc, DrainStart(start, count))

----------------------------------------------------------------------------
(* SendFeedbackOnRequest, lines 275-298.  A request is <<>> (none) or      *)
(* <<[sequence_count, include_timestamps]>>.                               *)

OnRequestResult(m, count, sent_, ranges_, aborted_) ==
  [pat |-> m, count |-> count, sent |-> sent_, ranges |-> ranges_,
   aborted |-> aborted_]

SendFeedbackOnRequest(m, ssrc, count, sequence_number, feedback_request) ==
  IF feedback_request.sequence_count = 0
    THEN OnRequestResult(m, count, <<>>, <<>>, FALSE)
    ELSE LET Finish(first_sequence_number, begin_it, r) ==
               IF r.aborted
                 THEN OnRequestResult(m, NextFeedbackCount(count), <<>>, <<>>,
                                      TRUE)
                 ELSE OnRequestResult(EraseBefore(m, begin_it),
                        NextFeedbackCount(count), <<r.packet>>,
                        <<<<first_sequence_number, r.next>>>>, FALSE)
             Build(first_sequence_number, begin_it, end_it) ==
               Finish(first_sequence_number, begin_it,
                 BuildFeedbackPacket(count, ssrc, first_sequence_number, m,
                   begin_it, end_it,
                   NewTransportFeedback(feedback_request.include_timestamps)))
             Range(first_sequence_number) ==
               Build(first_sequence_number,
                     lower_bound(m, first_sequence_number),
                     upper_bound(m, sequence_number))
         IN  Range(sequence_number - feedback_request.sequence_count + 1)

----------------------------------------------------------------------------
(* The sequence-number unwrapper (unwrapper_.Unwrap): the value congruent  *)
(* to the 16-bit input that is nearest to the value returned last; the     *)
(* first call returns the input.  At a distance of exactly half the range  *)
(* both neighbours are nearest.                                            *)

Abs(x) == IF x < 0 THEN -x ELSE x

Unwrap(state, sequence_number) ==
  IF state = <<>>
    THEN {sequence_number}
    ELSE LET last == state[1]
             forward == last + ((sequence_number - last) % kSeqModulus)
             cands == {forward, forward - kSeqModulus}
         IN  {c \in cands : \A d \in cands : Abs(c - last) <= Abs(d - last)}

----------------------------------------------------------------------------
(* OnPacketArrival, lines 188-239 *)

ArrivalTimeInRange(arrival_time) ==
  ~(arrival_time < 0 \/ arrival_time > kMaxTimeMs)

(* lines 204-208: erase from begin() while the entry is below seq and old *)
RECURSIVE CullOldPackets(_, _, _)
CullOldPackets(m, seq, arrival_time) ==
  IF Keys(m) = {}
    THEN m
    ELSE LET k == Min(Keys(m))
         IN  IF k < seq /\ arrival_time - m[k] >= back_window_ms
               THEN CullOldPackets(Restrict(m, Keys(m) \ {k}), seq, arrival_time)
               ELSE m

(* lines 200-202: the cursor is set and nothing is at or after it *)
PeriodicWindowDrained(m, start) ==
  start /= <<>> /\ lower_bound(m, start[1]) = EndIt(m)

(* lines 210-212 *)
StartAfterArrival(start, seq) ==
  IF start = <<>> \/ seq < start[1] THEN <<seq>> ELSE start

(* line 219 *)
Insert(m, seq, arrival_time) ==
  [k \in Keys(m) \cup {seq} |-> IF k = seq THEN arrival_time ELSE m[k]]

(* Mutant: the span of 16 bits instead of 15. *)
FirstArrivalTimeToKeep_SixteenBits(m) ==
  lower_bound(m, Max(Keys(m)) - 2 * kMaxNumberOfPackets)

(* lines 222-223 *)
FirstArrivalTimeToKeep(m) ==
  lower_bound(m, Max(Keys(m)) - kMaxNumberOfPackets)

(* What OnPacketArrival leaves behind, and what it did on the way. *)
ArrivalResult(m, start, unwrapper, count, seq) ==
  [pat |-> m, start |-> start, unwrapper |-> unwrapper, count |-> count,
   sent |-> <<>>, ranges |-> <<>>, aborted |-> FALSE,
   seq |-> seq, in_range |-> TRUE, dup |-> FALSE, culled |-> FALSE,
   span_erased |-> FALSE, inserted_kept |-> FALSE, requested |-> FALSE]

(* lines 235-238, r being the outcome so far *)
HandleFeedbackRequest(r, ssrc, feedback_request) ==
  IF feedback_request = <<>>
    THEN r
    ELSE LET Merge(f) ==
               [r EXCEPT !.pat = f.pat, !.count = f.count, !.sent = f.sent,
                         !.ranges = f.ranges, !.aborted = f.aborted,
                         !.requested = TRUE]
         IN  Merge(SendFeedbackOnRequest(r.pat, ssrc, r.count, r.seq,
                                         feedback_request[1]))

(* lines 221-233, m2 being the map with the new entry in it *)
LimitRange(r, m2, periodic) ==
  LET Erase(keep_it) ==
        IF keep_it /= 1
          THEN LET Kept(m3) ==
                     [r EXCEPT !.pat = m3,
                               !.start = IF periodic THEN <<Min(Keys(m3))>>
                                                     ELSE r.start,
                               !.span_erased = TRUE,
                               !.inserted_kept = (r.seq \in Keys(m3))]
               IN  Kept(EraseBefore(m2, keep_it))
          ELSE [r EXCEPT !.pat = m2, !.inserted_kept = TRUE]
  IN  Erase(FirstArrivalTimeToKeep(m2))

(* Mutant: no check for an entry already there; the arrival overwrites it. *)
InsertArrival_NoDuplicateCheck(r, m, m1, periodic, ssrc, arrival_time, feedback_request) ==
  HandleFeedbackRequest(
    LimitRange([r EXCEPT !.culled = (m1 /= m)],
               Insert(m1, r.seq, arrival_time), periodic),
    ssrc, feedback_request)

(* lines 215-238, m1 being the map after the cull *)
InsertArrival(r, m, m1, periodic, ssrc, arrival_time, feedback_request) ==
  IF r.seq \in Keys(m1)
    THEN [r EXCEPT !.pat = m1, !.culled = (m1 /= m), !.dup = TRUE]
    ELSE HandleFeedbackRequest(
           LimitRange([r EXCEPT !.culled = (m1 /= m)],
                      Insert(m1, r.seq, arrival_time), periodic),
           ssrc, feedback_request)

OnPacketArrival(m, start, unwrapper, count, periodic, ssrc, sequence_number, arrival_time, feedback_request, seq) ==
  IF ~ArrivalTimeInRange(arrival_time)
    THEN [ArrivalResult(m, start, unwrapper, count, 0) EXCEPT !.in_range = FALSE]
    ELSE InsertArrival(
           ArrivalResult(m,
                         IF periodic THEN StartAfterArrival(start, seq)
                                     ELSE start,
                         <<seq>>, count, seq),
           m,
           IF periodic /\ PeriodicWindowDrained(m, start)
             THEN CullOldPackets(m, seq, arrival_time)
             ELSE m,
           periodic, ssrc, arrival_time, feedback_request)

----------------------------------------------------------------------------
(* GetTtimeFromAbsSendtime, lines 345-373 *)

(* static_cast<int32_t>((a << 8) - (b << 8)) / 256: the 32-bit difference  *)
(* of the two values shifted left by 8 is the 24-bit difference shifted    *)
(* left by 8, and bit 23 of that is the sign.                              *)
SignedSendTimeDiff(a, b) ==
  LET d == (a - b) % kAbsSendTimeModulus
  IN  IF d >= kAbsSendTimeModulus \div 2 THEN d - kAbsSendTimeModulus ELSE d

(* round((a / 2^18 + 64 * cycles) * 1000), exact in double for 24-bit a:   *)
(* a * 1000 / 2^18 = a * 125 / 2^15, rounded half away from zero.  The     *)
(* result is below 2^31 for the cycle counts the model reaches, where the  *)
(* cast to uint32_t changes nothing.                                       *)
SendTimeMs(absoluteSendTime, cycles) ==
  (absoluteSendTime * 125 + 16384) \div 32768 + 64000 * cycles

(* Mutant: the wrap goes unnoticed. *)
CyclesAfter_NoWrap(absoluteSendTime, cycles, max_abs) == cycles

(* lines 360-363 *)
CyclesAfter(absoluteSendTime, cycles, max_abs) ==
  IF absoluteSendTime < max_abs THEN cycles + 1 ELSE cycles

GetTtimeFromAbsSendtime(cycles, max_abs, absoluteSendTime) ==
  LET Result(cycles1, max1) ==
        [cycles |-> cycles1, max_abs |-> max1,
         ms |-> SendTimeMs(absoluteSendTime, cycles1)]
      Compare(cycles0, max0) ==
        IF SignedSendTimeDiff(absoluteSendTime, max0) >= 0
          THEN Result(CyclesAfter(absoluteSendTime, cycles0, max0),
                      absoluteSendTime)
          ELSE Result(cycles0, max0)
  IN  IF cycles = -1 THEN Compare(0, absoluteSendTime)
                     ELSE Compare(cycles, max_abs)

----------------------------------------------------------------------------
(* OnBitrateChanged, lines 162-180.  bandwidth_fraction is 1/20, so rates  *)
(* are kept multiplied by 20 to stay in the integers: the clamp bounds are *)
(* 20 * kMinTwccRate and 20 * kMaxTwccRate and the clamped value is        *)
(* 20 * (bandwidth_fraction * bitrate_bps) = bitrate_bps.                  *)

kTwccReportBitsPerSec == kTwccReportSize * 8 * 1000

kMinTwccRate20 == (kTwccReportBitsPerSec * bandwidth_fraction_inv) \div max_interval_ms

kMaxTwccRate20 == (kTwccReportBitsPerSec * bandwidth_fraction_inv) \div min_interval_ms

(* Mutant: no upper bound on the rate. *)
SafeClamp_NoUpperBound(x, lo, hi) == IF x < lo THEN lo ELSE x

SafeClamp(x, lo, hi) == IF x < lo THEN lo ELSE IF x > hi THEN hi ELSE x

(* static_cast<int>(0.5 + bits / rate) *)
RoundedInterval(rate20) ==
  (2 * kTwccReportBitsPerSec * bandwidth_fraction_inv + rate20) \div (2 * rate20)

SendIntervalFor(bitrate_bps) ==
  RoundedInterval(SafeClamp(bitrate_bps, kMinTwccRate20, kMaxTwccRate20))

(* Mutant: -1 taken for the time of a tick. *)
TimeUntilNextProcessValue_NoFirstTick(periodic, last_process_time, interval, time_now) ==
  IF ~periodic
    THEN kDayMs
    ELSE IF time_now - last_process_time < interval
           THEN last_process_time + interval - time_now
           ELSE 0

(* TimeUntilNextProcess, lines 139-150 *)
TimeUntilNextProcessValue(periodic, last_process_time, interval, time_now) ==
  IF ~periodic
    THEN kDayMs
    ELSE IF last_process_time /= -1 /\ time_now - last_process_time < interval
           THEN last_process_time + interval - time_now
           ELSE 0

----------------------------------------------------------------------------
(* The state after construction, lines 39-58 *)

NoCall ==
  [op |-> "none", has_seq |-> FALSE, in_range |-> FALSE, seq |-> 0,
   dup |-> FALSE, culled |-> FALSE, span_erased |-> FALSE,
   inserted_kept |-> FALSE, requested |-> FALSE, req_count |-> -1,
   ranges |-> <<>>, ret |-> -1, send_time_ms |-> -1, arg |-> 0,
   in_order |-> TRUE, arrival_time_ms |-> -1]

InitWith(capacities) ==
  /\ packet_arrival_times_ = EmptyMap
  /\ periodic_window_start_seq_ = <<>>
  /\ unwrapper_ = <<>>
  /\ media_ssrc_ = 0
  /\ feedback_packet_count_ = 0
  /\ send_interval_ms_ = default_interval_ms
  /\ last_process_time_ms_ = -1
  /\ send_periodic_feedback_ = TRUE
  /\ cycles_ = -1
  /\ max_abs_send_time_ = 0
  /\ now = 0
  /\ dcheck_is_on \in BOOLEAN
  /\ feedback_capacity \in capacities
  /\ crashed = FALSE
  /\ sent = <<>>
  /\ n_sent = 0
  /\ call = NoCall
  /\ reported = {}
  /\ steps = 0

Init == InitWith({2})

----------------------------------------------------------------------------
(* The operations *)

Running == ~crashed

build == <<dcheck_is_on, feedback_capacity>>

window == <<packet_arrival_times_, periodic_window_start_seq_, unwrapper_>>

send_time == <<cycles_, max_abs_send_time_>>

schedule == <<send_interval_ms_, last_process_time_ms_,
              send_periodic_feedback_>>

(* A call that sends nothing. *)
Quiet(c) ==
  /\ sent' = <<>>
  /\ n_sent' = n_sent
  /\ call' = c
  /\ reported' = reported

(* IncomingPacket, lines 81-132, for a header without the transport        *)
(* sequence number extension: returns before taking the lock.              *)
IncomingPacketNoExtension ==
  /\ Running
  /\ Quiet([NoCall EXCEPT !.op = "IncomingPacket", !.in_order = FALSE])
  /\ UNCHANGED <<window, media_ssrc_, feedback_packet_count_, schedule,
                 send_time, now, build, crashed>>

RequestCount(feedback_request) ==
  IF feedback_request = <<>> THEN -1 ELSE feedback_request[1].sequence_count

(* Whether the send times seen so far, this one included, came in order:   *)
(* each at or ahead of the one before by less than half the wrap period.   *)
InOrder(absoluteSendTime) ==
  \/ call.op = "none"
  \/ /\ call.op = "IncomingPacket"
     /\ call.has_seq
     /\ call.in_order
     /\ SignedSendTimeDiff(absoluteSendTime, call.arg) >= 0

(* IncomingPacket, lines 81-132, with the extension present.  When         *)
(* OnPacketArrival aborts, nothing after it runs.                          *)
IncomingPacket(ssrc, sequence_number, arrival_time_ms, feedback_request, absoluteSendTime) ==
  /\ Running
  /\ \E seq \in Unwrap(unwrapper_, sequence_number) :
     \E r \in {OnPacketArrival(packet_arrival_times_,
                               periodic_window_start_seq_, unwrapper_,
                               feedback_packet_count_,
                               send_periodic_feedback_, ssrc,
                               sequence_number, arrival_time_ms,
                               feedback_request, seq)} :
     \E t \in {GetTtimeFromAbsSendtime(cycles_, max_abs_send_time_,
                                       absoluteSendTime)} :
           /\ media_ssrc_' = ssrc
           /\ packet_arrival_times_' = r.pat
           /\ periodic_window_start_seq_' = r.start
           /\ unwrapper_' = r.unwrapper
           /\ feedback_packet_count_' = r.count
           /\ sent' = r.sent
           /\ n_sent' = n_sent + Len(r.sent)
           /\ crashed' = r.aborted
           /\ reported' = reported \cap Keys(r.pat)
           /\ cycles_' = IF r.aborted THEN cycles_ ELSE t.cycles
           /\ max_abs_send_time_' =
                IF r.aborted THEN max_abs_send_time_ ELSE t.max_abs
           /\ call' = [NoCall EXCEPT
                         !.op = "IncomingPacket", !.has_seq = TRUE,
                         !.in_range = r.in_range, !.seq = r.seq,
                         !.dup = r.dup, !.culled = r.culled,
                         !.span_erased = r.span_erased,
                         !.inserted_kept = r.inserted_kept,
                         !.requested = r.requested,
                         !.req_count = RequestCount(feedback_request),
                         !.ranges = r.ranges,
                         !.send_time_ms = IF r.aborted THEN -1 ELSE t.ms,
                         !.arg = absoluteSendTime,
                         !.in_order = InOrder(absoluteSendTime),
                         !.arrival_time_ms = arrival_time_ms]
  /\ UNCHANGED <<schedule, now, build>>

(* The window keys within the ranges the messages of a tick were built     *)
(* for.                                                                    *)
CoveredKeys(m, ranges) ==
  {k \in Keys(m) :
     \E i \in 1 .. Len(ranges) : ranges[i][1] <= k /\ k < ranges[i][2]}

(* Mutant: a tick erases the entries it has reported. *)
Process_ErasesSent ==
  /\ Running
  /\ IF ~send_periodic_feedback_
       THEN /\ Quiet([NoCall EXCEPT !.op = "Process", !.in_order = FALSE])
            /\ UNCHANGED <<last_process_time_ms_, periodic_window_start_seq_,
                           feedback_packet_count_, crashed,
                           packet_arrival_times_>>
       ELSE \E d \in {SendPeriodicFeedbacks(packet_arrival_times_,
                        media_ssrc_, periodic_window_start_seq_,
                        feedback_packet_count_)} :
                /\ last_process_time_ms_' = now
                /\ periodic_window_start_seq_' = d.start
                /\ feedback_packet_count_' = d.count
                /\ sent' = d.sent
                /\ n_sent' = n_sent + Len(d.sent)
                /\ crashed' = d.aborted
                /\ packet_arrival_times_' =
                     Restrict(packet_arrival_times_,
                              Keys(packet_arrival_times_) \
                                CoveredKeys(packet_arrival_times_, d.ranges))
                /\ reported' = {}
                /\ call' = [NoCall EXCEPT !.op = "Process",
                                          !.ranges = d.ranges,
                                          !.in_order = FALSE]
  /\ UNCHANGED <<unwrapper_, media_ssrc_, send_interval_ms_,
                 send_periodic_feedback_, send_time, now, build>>

(* Mutant: a tick that does not look at send_periodic_feedback_. *)
Process_WhenDisabled ==
  /\ Running
  /\ \E d \in {SendPeriodicFeedbacks(packet_arrival_times_, media_ssrc_,
                                      periodic_window_start_seq_,
                                      feedback_packet_count_)} :
       /\ last_process_time_ms_' = now
       /\ periodic_window_start_seq_' = d.start
       /\ feedback_packet_count_' = d.count
       /\ sent' = d.sent
       /\ n_sent' = n_sent + Len(d.sent)
       /\ crashed' = d.aborted
       /\ reported' = reported \cup
                         CoveredKeys(packet_arrival_times_, d.ranges)
       /\ call' = [NoCall EXCEPT !.op = "Process", !.ranges = d.ranges,
                                 !.in_order = FALSE]
  /\ UNCHANGED <<packet_arrival_times_, unwrapper_, media_ssrc_,
                 send_interval_ms_, send_periodic_feedback_, send_time, now,
                 build>>

(* Process, lines 152-160 *)
Process ==
  /\ Running
  /\ IF ~send_periodic_feedback_
       THEN /\ Quiet([NoCall EXCEPT !.op = "Process", !.in_order = FALSE])
            /\ UNCHANGED <<last_process_time_ms_, periodic_window_start_seq_,
                           feedback_packet_count_, crashed>>
       ELSE \E d \in {SendPeriodicFeedbacks(packet_arrival_times_,
                        media_ssrc_, periodic_window_start_seq_,
                        feedback_packet_count_)} :
                /\ last_process_time_ms_' = now
                /\ periodic_window_start_seq_' = d.start
                /\ feedback_packet_count_' = d.count
                /\ sent' = d.sent
                /\ n_sent' = n_sent + Len(d.sent)
                /\ crashed' = d.aborted
                /\ reported' = reported \cup
                                  CoveredKeys(packet_arrival_times_, d.ranges)
                /\ call' = [NoCall EXCEPT !.op = "Process",
                                          !.ranges = d.ranges,
                                          !.in_order = FALSE]
  /\ UNCHANGED <<packet_arrival_times_, unwrapper_, media_ssrc_,
                 send_interval_ms_, send_periodic_feedback_, send_time, now,
                 build>>

(* TimeUntilNextProcess, lines 139-150 *)
TimeUntilNextProcess ==
  /\ Running
  /\ Quiet([NoCall EXCEPT
              !.op = "TimeUntilNextProcess", !.in_order = FALSE,
              !.ret = TimeUntilNextProcessValue(send_periodic_feedback_,
                        last_process_time_ms_, send_interval_ms_, now)])
  /\ UNCHANGED <<window, media_ssrc_, feedback_packet_count_, schedule,
                 send_time, now, build, crashed>>

(* OnBitrateChanged, lines 162-180 *)
OnBitrateChanged(bitrate_bps) ==
  /\ Running
  /\ send_interval_ms_' = SendIntervalFor(bitrate_bps)
  /\ Quiet([NoCall EXCEPT !.op = "OnBitrateChanged", !.arg = bitrate_bps,
                          !.in_order = FALSE])
  /\ UNCHANGED <<window, media_ssrc_, feedback_packet_count_,
                 last_process_time_ms_, send_periodic_feedback_, send_time,
                 now, build, crashed>>

(* SetSendPeriodicFeedback, lines 182-186 *)
SetSendPeriodicFeedback(send_periodic_feedback) ==
  /\ Running
  /\ send_periodic_feedback_' = send_periodic_feedback
  /\ Quiet([NoCall EXCEPT !.op = "SetSendPeriodicFeedback",
                          !.in_order = FALSE])
  /\ UNCHANGED <<window, media_ssrc_, feedback_packet_count_,
                 send_interval_ms_, last_process_time_ms_, send_time, now,
                 build, crashed>>

(* The clock moves between calls. *)
AdvanceClock(delta) ==
  /\ Running
  /\ now' = now + delta
  /\ Quiet([NoCall EXCEPT !.op = "AdvanceClock", !.in_order = FALSE])
  /\ UNCHANGED <<window, media_ssrc_, feedback_packet_count_, schedule,
                 send_time, build, crashed>>

----------------------------------------------------------------------------
(* Spec: arrivals close together in sequence, ticks, on-demand requests    *)
(* and the periodic toggle.  Each specification bounds its runs, most by   *)
(* the number of steps.                                                    *)

NoRequest == <<>>

Request(count, include_timestamps) ==
  <<[sequence_count |-> count, include_timestamps |-> include_timestamps]>>

Arrive ==
  \E sn \in {0, 1, 2}, t \in {-1, 100, 700},
     req \in {NoRequest, Request(0, TRUE), Request(2, FALSE)} :
    IncomingPacket(42, sn, t, req, 1000)

Toggle == \E b \in BOOLEAN : SetSendPeriodicFeedback(b)

Next ==
  /\ steps < MaxSteps
  /\ steps' = steps + 1
  /\ \/ Arrive
     \/ IncomingPacketNoExtension
     \/ Process
     \/ Toggle

Spec == Init /\ [][Next]_vars

----------------------------------------------------------------------------
(* SpecWide: arrivals far apart in sequence, so that the span bound of the *)
(* window is reached, and arrival times at the edge of the valid range.    *)

MaxWideSteps == 4

ArriveWide ==
  \E sn \in {0, 27232, 30000, 60000}, t \in {100, kMaxTimeMs, kMaxTimeMs + 1},
     req \in {NoRequest, Request(0, TRUE), Request(1, TRUE)} :
    IncomingPacket(42, sn, t, req, 1000)

NextWide ==
  /\ steps < MaxWideSteps
  /\ steps' = steps + 1
  /\ \/ ArriveWide
     \/ Process

SpecWide == Init /\ [][NextWide]_vars

----------------------------------------------------------------------------
(* SpecRun: the packets 1..5 of one media stream, each with its arrival    *)
(* time, in any order and with losses, and periodic ticks; a message holds *)
(* two records or five.                                                    *)

MaxRunSteps == 6

RunPackets == {<<1, 100>>, <<2, 101>>, <<3, 105>>, <<4, 106>>, <<5, 110>>}

ArriveRun ==
  \E p \in RunPackets : IncomingPacket(42, p[1], p[2], NoRequest, 1000)

NextRun ==
  /\ steps < MaxRunSteps
  /\ steps' = steps + 1
  /\ \/ ArriveRun
     \/ Process

SpecRun == InitWith({2, 5}) /\ [][NextRun]_vars

----------------------------------------------------------------------------
(* SpecSched: the scheduling side: bitrate changes, the clock, ticks and   *)
(* the periodic toggle.                                                    *)

MaxSchedSteps == 4

Bitrates ==
  {-1, 0, 43520, 43521, 60000, 100000, 217599, 217600, 1000000}

ChangeBitrate == \E b \in Bitrates : OnBitrateChanged(b)

Tick == \E d \in {1, 49, 50, 100} : AdvanceClock(d)

NextSched ==
  /\ steps < MaxSchedSteps
  /\ steps' = steps + 1
  /\ \/ ChangeBitrate
     \/ Tick
     \/ Process
     \/ TimeUntilNextProcess
     \/ Toggle

SpecSched == Init /\ [][NextSched]_vars

----------------------------------------------------------------------------
(* SpecSendTime: a stream of packets whose absolute send times lie on a    *)
(* grid of eight points per wrap period.                                   *)

MaxSendTimeSteps == 14

AbsSendTimeStep == kAbsSendTimeModulus \div 8

GridSendTime(i) == i * AbsSendTimeStep + 5 * i

ArriveSendTime ==
  \E i \in 0 .. 7 : IncomingPacket(42, 0, 100, NoRequest, GridSendTime(i))

NextSendTime ==
  /\ steps < MaxSendTimeSteps
  /\ steps' = steps + 1
  /\ ArriveSendTime

SpecSendTime == Init /\ [][NextSendTime]_vars

----------------------------------------------------------------------------
(* SpecCounter: a long in-order stream in which every packet asks for      *)
(* feedback, with a periodic tick at least every MaxBacklog packets:       *)
(* enough messages for the 8-bit feedback counter to wrap.                 *)

MaxCounterSent == 258

MaxBacklog == 2

NextInOrder == IF unwrapper_ = <<>> THEN 0 ELSE ToUint16(unwrapper_[1] + 1)

(* Packets received since the last tick reported. *)
Backlog ==
  IF periodic_window_start_seq_ = <<>>
    THEN 0
    ELSE unwrapper_[1] + 1 - periodic_window_start_seq_[1]

ArriveInOrder ==
  /\ Backlog < MaxBacklog
  /\ \E req \in {Request(1, TRUE), Request(2, TRUE)} :
       IncomingPacket(42, NextInOrder, 100, req, 1000)

NextCounter ==
  /\ n_sent < MaxCounterSent
  /\ UNCHANGED steps
  /\ \/ ArriveInOrder
     \/ Process

SpecCounter == Init /\ [][NextCounter]_vars

----------------------------------------------------------------------------
(* The claims.  A step "is" a call when call' names it; the unprimed       *)
(* variables are then the state the call found.                            *)

IsArrival(c) == c.op = "IncomingPacket" /\ c.has_seq /\ c.in_range

(* An arrival whose unwrapped sequence number the window already holds. *)
DuplicateArrival ==
  IsArrival(call') /\ call'.seq \in Keys(packet_arrival_times_)

(* C1, as stated: a packet arrival whose unwrapped sequence number is      *)
(* already a key of the window leaves the window exactly as it was.        *)
C1_DuplicateLeavesWindowUnchanged ==
  [][DuplicateArrival => packet_arrival_times_' = packet_arrival_times_]_vars

(* C1, amended: a duplicate arrival adds no key and changes no stored      *)
(* arrival time, and its own key stays with the time of its first arrival; *)
(* the window is exactly unchanged unless periodic feedback is enabled and *)
(* no key is at or after the cursor, when entries below the duplicate that *)
(* are older than the back window are culled.                              *)
C1_DuplicateKeepsFirstArrival ==
  [][DuplicateArrival =>
       /\ Keys(packet_arrival_times_') \subseteq Keys(packet_arrival_times_)
       /\ call'.seq \in Keys(packet_arrival_times_')
       /\ \A k \in Keys(packet_arrival_times_') :
            packet_arrival_times_'[k] = packet_arrival_times_[k]
       /\ \A k \in Keys(packet_arrival_times_) \ Keys(packet_arrival_times_') :
            k < call'.seq
       /\ ~(send_periodic_feedback_ /\
            PeriodicWindowDrained(packet_arrival_times_,
                                  periodic_window_start_seq_))
            => packet_arrival_times_' = packet_arrival_times_
       /\ sent' = <<>>]_vars

(* A duplicate arrived and older entries were culled on the way. *)
C1_Witness == IsArrival(call) /\ call.dup /\ call.culled

----------------------------------------------------------------------------
Span(m) == IF Keys(m) = {} THEN 0 ELSE Max(Keys(m)) - Min(Keys(m))

(* The keys an arrival has to deal with: the window's and its own. *)
KeysWithArrival == Keys(packet_arrival_times_) \cup {call'.seq}

(* C2: after any sequence of arrivals, ticks and on-demand requests the    *)
(* largest and the smallest key of the window differ by at most 32768; an  *)
(* insertion that exceeds it erases the oldest keys (every key erased is   *)
(* below every key kept) and never the largest key.                        *)
C2_WindowSpanBound ==
  [][/\ Span(packet_arrival_times_') <= kMaxNumberOfPackets
     /\ (IsArrival(call') /\ call'.span_erased) =>
          /\ Max(KeysWithArrival) \in Keys(packet_arrival_times_')
          /\ \A e \in KeysWithArrival \ Keys(packet_arrival_times_') :
               \A k \in Keys(packet_arrival_times_') : e < k]_vars

(* An insertion went over the span and entries on both sides of it remain. *)
C2_Witness ==
  /\ IsArrival(call)
  /\ call.span_erased
  /\ Cardinality(Keys(packet_arrival_times_)) >= 2
  /\ Span(packet_arrival_times_) > kMaxNumberOfPackets \div 2

----------------------------------------------------------------------------
(* A tick that finds periodic feedback enabled and the cursor set. *)
PeriodicDrain ==
  /\ call'.op = "Process"
  /\ send_periodic_feedback_
  /\ periodic_window_start_seq_ /= <<>>

(* The entries a tick has to report: those at or after the cursor. *)
Run == {k \in Keys(packet_arrival_times_) : k >= periodic_window_start_seq_[1]}

(* The record the wire carries for window entry k. *)
WireRecord(k) ==
  [seq |-> k % 65536, time_us |-> packet_arrival_times_[k] * 1000]

(* The window entries of S in ascending order, as wire records. *)
WireRecords(S) == [i \in 1 .. Cardinality(S) |-> WireRecord(SortedSeq(S)[i])]

(* Message i of the call carries the record of entry k. *)
Carries(msgs, i, k) ==
  \E j \in 1 .. Len(msgs[i].packets) : msgs[i].packets[j] = WireRecord(k)

(* C3: a tick whose backlog exceeds one message sends N >= 2 messages for  *)
(* ranges [base_i, next_i) with base_1 the cursor before the call and      *)
(* base_(i+1) = next_i, each message carrying its base; every entry at or  *)
(* after the old cursor is a record of exactly one message, the one whose  *)
(* range holds it; the cursor ends one past the last entry.                *)
C3_MultiMessageDrain ==
  [][(PeriodicDrain /\ Cardinality(Run) > feedback_capacity) =>
       LET msgs == sent'
           rg == call'.ranges
           N == Len(msgs)
       IN  /\ N >= 2
           /\ Len(rg) = N
           /\ rg[1][1] = periodic_window_start_seq_[1]
           /\ \A i \in 1 .. N - 1 : rg[i + 1][1] = rg[i][2]
           /\ \A i \in 1 .. N :
                /\ rg[i][1] < rg[i][2]
                /\ msgs[i].base_seq = rg[i][1] % 65536
                /\ Len(msgs[i].packets) >= 1
           /\ \A k \in Run :
                \A i \in 1 .. N :
                  Carries(msgs, i, k) <=> (rg[i][1] <= k /\ k < rg[i][2])
           /\ \A k \in Run : \E i \in 1 .. N : Carries(msgs, i, k)
           /\ \A i \in 1 .. N : \A j \in 1 .. Len(msgs[i].packets) :
                \E k \in Run : msgs[i].packets[j] = WireRecord(k)
           /\ periodic_window_start_seq_' = <<Max(Run) + 1>>
           /\ packet_arrival_times_' = packet_arrival_times_]_vars

(* A tick sent three messages, the first two full. *)
C3_Witness ==
  /\ call.op = "Process"
  /\ Len(sent) = 3
  /\ Len(sent[1].packets) = 2
  /\ Len(sent[3].packets) = 1

----------------------------------------------------------------------------
(* A tick whose backlog is a contiguous run that fits one message. *)
OneMessageRun ==
  /\ PeriodicDrain
  /\ Run /= {}
  /\ Cardinality(Run) <= feedback_capacity
  /\ Max(Run) - Min(Run) + 1 = Cardinality(Run)

(* C4, as stated: the message built for a contiguous run that fits holds   *)
(* exactly the run's (sequence mod 2^16, time x 1000) pairs in ascending   *)
(* order, its base sequence number and base time are those of the run's    *)
(* first entry, and the cursor advances past the run.                      *)
C4_RoundTripBaseIsFirstEntry ==
  [][OneMessageRun =>
       /\ Len(sent') = 1
       /\ sent'[1].packets = WireRecords(Run)
       /\ sent'[1].base_seq = Min(Run) % 65536
       /\ sent'[1].base_time_us = packet_arrival_times_[Min(Run)] * 1000
       /\ periodic_window_start_seq_' = <<Max(Run) + 1>>]_vars

(* C4, amended: as stated, except that the base sequence number is the     *)
(* cursor before the call (mod 2^16), which is the first entry's sequence  *)
(* number when the run starts at the cursor and is lower when the packets  *)
(* at the cursor were not received.                                        *)
C4_RoundTripBaseIsCursor ==
  [][OneMessageRun =>
       /\ Len(sent') = 1
       /\ sent'[1].packets = WireRecords(Run)
       /\ sent'[1].base_seq = periodic_window_start_seq_[1] % 65536
       /\ (Min(Run) = periodic_window_start_seq_[1]
             => sent'[1].base_seq = Min(Run) % 65536)
       /\ sent'[1].base_time_us = packet_arrival_times_[Min(Run)] * 1000
       /\ sent'[1].feedback_seq = feedback_packet_count_
       /\ periodic_window_start_seq_' = <<Max(Run) + 1>>]_vars

(* Packets 1..5 arrived at 100, 101, 105, 106, 110 ms and one tick         *)
(* reported them in one message.                                           *)
C4_Witness ==
  /\ call.op = "Process"
  /\ sent = <<[media_ssrc |-> 42, base_seq |-> 1, base_time_us |-> 100000,
               feedback_seq |-> 0, include_timestamps |-> TRUE,
               packets |-> <<[seq |-> 1, time_us |-> 100000],
                             [seq |-> 2, time_us |-> 101000],
                             [seq |-> 3, time_us |-> 105000],
                             [seq |-> 4, time_us |-> 106000],
                             [seq |-> 5, time_us |-> 110000]>>]>>
  /\ periodic_window_start_seq_ = <<6>>

----------------------------------------------------------------------------
(* An arrival that reached SendFeedbackOnRequest. *)
OnDemandRequest == IsArrival(call') /\ call'.requested

(* C5: a request with count 0 sends no message and changes nothing (no     *)
(* message, the counter as it was, nothing erased on its account); a       *)
(* request with count K >= 1 for sequence number seq sends exactly one     *)
(* message, whose records are window entries with keys in [seq-K+1, seq],  *)
(* and leaves no key below seq-K+1 in the window.                          *)
C5_OnDemandFeedback ==
  [][OnDemandRequest =>
       IF call'.req_count = 0
         THEN /\ sent' = <<>>
              /\ feedback_packet_count_' = feedback_packet_count_
              /\ \A k \in KeysWithArrival \ Keys(packet_arrival_times_') :
                   call'.culled \/ call'.span_erased
         ELSE LET first == call'.seq - call'.req_count + 1
              IN  /\ Len(sent') = 1
                  /\ \A j \in 1 .. Len(sent'[1].packets) :
                       \E k \in Keys(packet_arrival_times_') :
                         /\ first <= k /\ k <= call'.seq
                         /\ sent'[1].packets[j] =
                              [seq |-> k % 65536,
                               time_us |-> packet_arrival_times_'[k] * 1000]
                  /\ \A k \in Keys(packet_arrival_times_') : k >= first]_vars

----------------------------------------------------------------------------
(* C6: TimeUntilNextProcess returns one day (in ms) when periodic feedback *)
(* is disabled; when enabled, exactly 0 if no tick has occurred yet or     *)
(* now - last_process_time >= send_interval, and otherwise the strictly    *)
(* positive residual last_process_time + send_interval - now; it changes   *)
(* no state.                                                               *)
C6_TimeUntilNextProcess ==
  [][call'.op = "TimeUntilNextProcess" =>
       /\ ~send_periodic_feedback_ => call'.ret = 24 * 60 * 60 * 1000
       /\ (send_periodic_feedback_ /\
           (last_process_time_ms_ = -1 \/
            now - last_process_time_ms_ >= send_interval_ms_))
            => call'.ret = 0
       /\ (send_periodic_feedback_ /\ last_process_time_ms_ /= -1 /\
           now - last_process_time_ms_ < send_interval_ms_)
            => /\ call'.ret = last_process_time_ms_ + send_interval_ms_ - now
               /\ call'.ret > 0
       /\ UNCHANGED <<window, media_ssrc_, feedback_packet_count_, schedule,
                      send_time, now, crashed>>]_vars

(* Part of the interval was left when the question was asked. *)
C6_Witness ==
  /\ call.op = "TimeUntilNextProcess"
  /\ call.ret > 0
  /\ call.ret < send_interval_ms_

----------------------------------------------------------------------------
(* C7: the send interval computed by OnBitrateChanged lies within          *)
(* [min_interval, max_interval] for every bitrate, zero and negative ones  *)
(* included, and of two calls in a row the one with the higher bitrate     *)
(* does not compute the larger interval.                                   *)
C7_IntervalRecomputation ==
  [][call'.op = "OnBitrateChanged" =>
       /\ min_interval_ms <= send_interval_ms_'
       /\ send_interval_ms_' <= max_interval_ms
       /\ (call.op = "OnBitrateChanged" /\ call.arg <= call'.arg)
            => send_interval_ms_' <= send_interval_ms_]_vars

(* Two bitrate changes in a row, the second to an interval strictly        *)
(* inside the range.                                                       *)
C7_Witness ==
  /\ call.op = "OnBitrateChanged"
  /\ steps >= 2
  /\ min_interval_ms < send_interval_ms_
  /\ send_interval_ms_ < max_interval_ms

----------------------------------------------------------------------------
(* C8: on a stream of send times that increases modulo 2^24 (each value at *)
(* or ahead of the one before by less than half the period) the            *)
(* millisecond results never decrease, and cycles goes up by exactly one   *)
(* at each wrap (a value numerically below the one before) and not         *)
(* otherwise.                                                              *)
C8_SendTimeMonotone ==
  [][(call'.op = "IncomingPacket" /\ call'.has_seq /\ call'.in_order) =>
       IF call.op = "none"
         THEN cycles_' = 0
         ELSE /\ call'.send_time_ms >= call.send_time_ms
              /\ cycles_' = cycles_ + (IF call'.arg < call.arg THEN 1 ELSE 0)]_vars

(* An in-order stream has wrapped three times. *)
C8_Witness ==
  /\ call.op = "IncomingPacket"
  /\ call.in_order
  /\ cycles_ >= 3

----------------------------------------------------------------------------
(* C9: the i-th message handed to the feedback sender, periodic or         *)
(* on-demand, carries the counter value (i - 1) mod 256, and the counter   *)
(* is the number of messages sent so far mod 256.                          *)
C9_FeedbackCounterOrder ==
  /\ \A i \in 1 .. Len(sent) :
       sent[i].feedback_seq = (n_sent - Len(sent) + i - 1) % 256
  /\ ~crashed => feedback_packet_count_ = n_sent % 256

(* The 257th message went out, with the counter back at 0. *)
C9_Witness ==
  /\ n_sent = 257
  /\ Len(sent) >= 1
  /\ sent[Len(sent)].feedback_seq = 0

----------------------------------------------------------------------------
(* C10: an IncomingPacket whose arrival time is negative or above          *)
(* kMaxTimeMs changes none of the window, the cursor, the sequence         *)
(* unwrapper, the media SSRC, the feedback counter and the send-time       *)
(* unwrap state, and sends no message.                                     *)
C10_OutOfRangeArrivalChangesNothing ==
  [][(call'.op = "IncomingPacket" /\ call'.has_seq /\ ~call'.in_range) =>
       /\ UNCHANGED <<packet_arrival_times_, periodic_window_start_seq_,
                      unwrapper_, media_ssrc_, feedback_packet_count_,
                      max_abs_send_time_, cycles_>>
       /\ sent' = <<>>]_vars

----------------------------------------------------------------------------
(* An arrival that found periodic feedback enabled and erased at least one *)
(* entry: one the window held, or the one it had just inserted.            *)
ErasingArrival ==
  /\ send_periodic_feedback_
  /\ IsArrival(call')
  /\ ~crashed'
  /\ KeysWithArrival \ Keys(packet_arrival_times_') /= {}

(* C11: when periodic feedback is enabled and an arrival erases at least   *)
(* one window entry (by the time-based prune, the span-bound prune or the  *)
(* erase of an on-demand request), the periodic cursor is the smallest key *)
(* of the window when the arrival returns.                                 *)
C11_CursorResyncAfterErasure ==
  [][ErasingArrival =>
       periodic_window_start_seq_' = <<Min(Keys(packet_arrival_times_'))>>]_vars

----------------------------------------------------------------------------
(* C12: whenever the periodic cursor is set, it is less than or equal to   *)
(* every window key that no sent periodic feedback message has covered.    *)
C12_CursorBelowUnreported ==
  periodic_window_start_seq_ /= <<>> =>
    \A k \in Keys(packet_arrival_times_) \ reported :
      periodic_window_start_seq_[1] <= k

----------------------------------------------------------------------------
(* An arrival that found periodic feedback enabled and the cursor set. *)
PeriodicArrival ==
  /\ IsArrival(call')
  /\ ~crashed'
  /\ send_periodic_feedback_
  /\ periodic_window_start_seq_ /= <<>>

(* C13: when periodic feedback is enabled, the cursor is set and no window *)
(* key is at or after the cursor, an arrival of seq at time t leaves no    *)
(* entry whose key is below seq and whose age t - arrival_time exceeds the *)
(* back window; when some key is at or after the cursor the arrival does   *)
(* no time-based erasure.                                                  *)
C13_TimeBasedPrune ==
  [][PeriodicArrival =>
       IF PeriodicWindowDrained(packet_arrival_times_,
                                periodic_window_start_seq_)
         THEN \A k \in Keys(packet_arrival_times_) \cap
                       Keys(packet_arrival_times_') :
                ~(/\ k < call'.seq
                  /\ call'.arrival_time_ms - packet_arrival_times_[k]
                       > back_window_ms)
         ELSE ~call'.culled]_vars

----------------------------------------------------------------------------
(* Some entry the window held is gone after the step. *)
EntryErased ==
  Keys(packet_arrival_times_) \ Keys(packet_arrival_times_') /= {}

(* C14: a periodic tick leaves the arrival window as it was, however many  *)
(* messages it sends, and changes nothing but the cursor, the feedback     *)
(* counter and last_process_time; an entry leaves the window only in an    *)
(* arrival, by the time-based prune, the span-bound prune or the erase of  *)
(* an on-demand request.                                                   *)
C14_SendingDoesNotErase ==
  [][/\ call'.op = "Process" =>
          /\ packet_arrival_times_' = packet_arrival_times_
          /\ UNCHANGED <<unwrapper_, media_ssrc_, send_interval_ms_,
                         send_periodic_feedback_, cycles_,
                         max_abs_send_time_>>
     /\ EntryErased =>
          /\ IsArrival(call')
          /\ \/ call'.culled
             \/ call'.span_erased
             \/ call'.requested /\ call'.req_count >= 1]_vars

(* A tick sent two messages for a window of three entries, all of them     *)
(* still there.                                                            *)
C14_Witness ==
  /\ call.op = "Process"
  /\ Len(sent) = 2
  /\ Cardinality(Keys(packet_arrival_times_)) = 3

----------------------------------------------------------------------------
(* C15: while periodic feedback is disabled, every Process call leaves the *)
(* window, the cursor, the feedback counter and last_process_time as they  *)
(* were and sends nothing, whatever arrived in between; the only calls     *)
(* that send a message are arrivals with an on-demand request.             *)
C15_DisabledPeriodicFeedback ==
  [][~send_periodic_feedback_ =>
       /\ call'.op = "Process" =>
            /\ UNCHANGED <<window, feedback_packet_count_,
                           last_process_time_ms_>>
            /\ sent' = <<>>
       /\ sent' /= <<>> =>
            /\ IsArrival(call')
            /\ call'.requested]_vars

(* A tick came while periodic feedback was disabled, with an entry at or   *)
(* after the cursor waiting.                                               *)
C15_Witness ==
  /\ call.op = "Process"
  /\ ~send_periodic_feedback_
  /\ periodic_window_start_seq_ /= <<>>
  /\ \E k \in Keys(packet_arrival_times_) : k >= periodic_window_start_seq_[1]
  /\ last_process_time_ms_ = -1

----------------------------------------------------------------------------
(* C16: with room for at least one record in an empty message, a tick with *)
(* periodic feedback enabled and the cursor set returns after sending at   *)
(* most as many messages as there are window entries at or after the       *)
(* cursor, each message moving the cursor strictly forward, and leaves no  *)
(* window key at or after the cursor.                                      *)
C16_PeriodicDrainTerminates ==
  [][(PeriodicDrain /\ feedback_capacity >= 1) =>
       LET rg == call'.ranges
       IN  /\ ~crashed'
           /\ Len(sent') <= Cardinality(Run)
           /\ Len(rg) = Len(sent')
           /\ \A i \in 1 .. Len(rg) : rg[i][1] < rg[i][2]
           /\ \A i \in 1 .. Len(rg) - 1 : rg[i][2] = rg[i + 1][1]
           /\ Len(rg) >= 1 =>
                /\ rg[1][1] = periodic_window_start_seq_[1]
                /\ periodic_window_start_seq_' = <<rg[Len(rg)][2]>>
           /\ periodic_window_start_seq_' /= <<>>
           /\ \A k \in Keys(packet_arrival_times_') :
                k < periodic_window_start_seq_'[1]]_vars

(* A tick needed as many messages as there were entries to report less one *)
(* and drained them all.                                                   *)
C16_Witness ==
  /\ call.op = "Process"
  /\ Len(sent) = 3
  /\ feedback_capacity = 2
  /\ Cardinality(Keys(packet_arrival_times_)) = 5
  /\ periodic_window_start_seq_ = <<6>>

----------------------------------------------------------------------------
(* C17: BuildFeedbackPacket is never called on an empty slice: no tick and *)
(* no arrival fails the RTC_DCHECK at its entry, and an arrival with an    *)
(* on-demand request for count >= 1 still finds its own sequence number in *)
(* the window when the range [seq - count + 1, seq] is taken.              *)
C17_NonEmptySlice ==
  [][/\ (call'.op = "Process" \/ IsArrival(call')) => ~crashed'
     /\ (OnDemandRequest /\ call'.req_count >= 1) => call'.inserted_kept]_vars

----------------------------------------------------------------------------
(* C18: every arrival with an in-range arrival time and a feedback request *)
(* for count >= 1 sends exactly one message during the call, whether or    *)
(* not the window already held its sequence number.                        *)
C18_EveryRequestAnswered ==
  [][(IsArrival(call') /\ call'.req_count >= 1) => Len(sent') = 1]_vars

----------------------------------------------------------------------------
(* A step that found periodic feedback enabled, left it enabled, and moved *)
(* the cursor backward.                                                    *)
CursorMovedBack ==
  /\ send_periodic_feedback_
  /\ send_periodic_feedback_'
  /\ periodic_window_start_seq_ /= <<>>
  /\ periodic_window_start_seq_' /= <<>>
  /\ periodic_window_start_seq_'[1] < periodic_window_start_seq_[1]

(* C19: with periodic feedback enabled, the cursor moves backward only in  *)
(* an arrival that inserts a sequence number the window did not hold and   *)
(* that is below the cursor; a duplicate arrival or an arrival at or above *)
(* the cursor never lowers it.                                             *)
C19_NoGratuitousReReporting ==
  [][CursorMovedBack =>
       /\ IsArrival(call')
       /\ call'.seq \notin Keys(packet_arrival_times_)
       /\ call'.seq < periodic_window_start_seq_[1]]_vars

----------------------------------------------------------------------------
(* An arrival whose send time is behind the largest one seen, by less than *)
(* half the wrap period.                                                   *)
LateSendTime ==
  /\ call'.op = "IncomingPacket"
  /\ call'.has_seq
  /\ ~crashed'
  /\ cycles_ /= -1
  /\ SignedSendTimeDiff(call'.arg, max_abs_send_time_) < 0

(* C20: a send time behind max_observed by less than half the wrap period  *)
(* gets a millisecond result not greater than the one max_observed got,    *)
(* also when max_observed was recorded just after a wrap and the late      *)
(* input belongs to the cycle before.                                      *)
C20_LateSendTimeNotAhead ==
  [][LateSendTime =>
       call'.send_time_ms <= SendTimeMs(max_abs_send_time_, cycles_)]_vars

============================================================================
